---- MODULE Spec2Model ----
(***************************************************************************)
(* A model of tool.py: images_to_pdf (directory -> PDF, fast path or PIL   *)
(* batches), merge_pdfs, batch_chapter_to_pdfs and zip_pdfs.               *)
(*                                                                         *)
(* File names are tuples of one-character strings, so that splitext,       *)
(* lower(), int() and the string order of list.sort() are computed and not *)
(* assumed.  A file is a record [kind, pages]: kind is "missing", "empty"  *)
(* (zero bytes), "partial" (non-empty, cut short by a failed write) or     *)
(* "pdf"; pages is the sequence of the images on its pages.                *)
(***************************************************************************)
EXTENDS Integers, Sequences, FiniteSets, TLC

\* ------------------------------------------------------------------ bounds
MaxEntries == 3      \* entries of a small directory drawn from EntryPool
MaxImages == 25      \* files of a numbered directory 1.jpg .. N.jpg
MaxCorrupt == 1      \* isolated images that fail to open or convert in one call
MaxNames == 3        \* names handed to the sort specification
MaxChapters == 3     \* sub-directories of an album
MaxPdfs == 3         \* paths handed to merge_pdfs and zip_pdfs

\* ------------------------------------------------------- program constants
BATCH_SIZE == 10

None == "None"

\* --------------------------------------------------------------- characters
Range(s) == {s[i] : i \in 1..Len(s)}

OrdTable ==
    << <<"-", 45>>, <<".", 46>>, <<"0", 48>>, <<"1", 49>>, <<"2", 50>>,
       <<"3", 51>>, <<"4", 52>>, <<"5", 53>>, <<"6", 54>>, <<"7", 55>>,
       <<"8", 56>>, <<"9", 57>>, <<"G", 71>>, <<"J", 74>>, <<"P", 80>>,
       <<"_", 95>>, <<"a", 97>>, <<"b", 98>>, <<"e", 101>>, <<"g", 103>>,
       <<"j", 106>>, <<"m", 109>>, <<"n", 110>>, <<"p", 112>>, <<"t", 116>>,
       <<"w", 119>>, <<"x", 120>> >>

\* ord() and chr()
OrdOf == [c \in {p[1] : p \in Range(OrdTable)} |->
            (CHOOSE p \in Range(OrdTable) : p[1] = c)[2]]

ChrOf == [n \in {p[2] : p \in Range(OrdTable)} |->
            (CHOOSE p \in Range(OrdTable) : p[2] = n)[1]]

Ord(c) == OrdOf[c]

Chr(n) == ChrOf[n]

\* str.lower() on one character
LowerChar(c) == IF Ord(c) \in 65..90 THEN Chr(Ord(c) + 32) ELSE c

Lower(s) == [i \in 1..Len(s) |-> LowerChar(s[i])]

IsDigit(c) == Ord(c) \in 48..57

DigitValue(c) == Ord(c) - 48

\* ------------------------------------------------------ os.path.splitext
LastDot(p) ==
    IF \E i \in 1..Len(p) : p[i] = "."
    THEN CHOOSE i \in 1..Len(p) : p[i] = "." /\ \A j \in (i+1)..Len(p) : p[j] # "."
    ELSE 0

\* <<root, ext>>: the extension starts at the last dot, unless only dots precede it
SplitExt(p) ==
    LET dot == LastDot(p) IN
    IF dot > 0 /\ \E k \in 1..(dot - 1) : p[k] # "."
    THEN <<SubSeq(p, 1, dot - 1), SubSeq(p, dot, Len(p))>>
    ELSE <<p, <<>> >>

ExtOf(name) == Lower(SplitExt(name)[2])

\* ------------------------------------------------------------------ int()
\* int(str): optional sign, then digits, single underscores between digits
IsDigitString(s) ==
    /\ Len(s) > 0
    /\ IsDigit(s[1])
    /\ IsDigit(s[Len(s)])
    /\ \A i \in 1..Len(s) : IsDigit(s[i]) \/ s[i] = "_"
    /\ \A i \in 1..(Len(s) - 1) : ~(s[i] = "_" /\ s[i+1] = "_")

ParsesAsInt(s) ==
    /\ Len(s) > 0
    /\ IF s[1] = "-" THEN IsDigitString(Tail(s)) ELSE IsDigitString(s)

RECURSIVE DigitsValue(_, _)
DigitsValue(s, acc) ==
    IF s = <<>> THEN acc
    ELSE IF s[1] = "_" THEN DigitsValue(Tail(s), acc)
    ELSE DigitsValue(Tail(s), 10 * acc + DigitValue(s[1]))

\* defined where ParsesAsInt(s)
IntOf(s) == IF s[1] = "-" THEN 0 - DigitsValue(Tail(s), 0) ELSE DigitsValue(s, 0)

\* ----------------------------------------------------------- string order
\* a < b as Python compares str: by code point, a proper prefix first
RECURSIVE StrLess(_, _)
StrLess(a, b) ==
    IF b = <<>> THEN FALSE
    ELSE IF a = <<>> THEN TRUE
    ELSE IF Ord(a[1]) # Ord(b[1]) THEN Ord(a[1]) < Ord(b[1])
    ELSE StrLess(Tail(a), Tail(b))

\* ---------------------------------------------------------------- list.sort
\* list.sort is stable: x goes after every element that is not greater
RECURSIVE InsertByKey(_, _)
InsertByKey(x, s) ==
    IF s = <<>> THEN <<x>>
    ELSE IF x.key < s[1].key THEN <<x>> \o s
    ELSE <<s[1]>> \o InsertByKey(x, Tail(s))

RECURSIVE SortByKey(_)
SortByKey(s) ==
    IF s = <<>> THEN <<>>
    ELSE InsertByKey(s[Len(s)], SortByKey(SubSeq(s, 1, Len(s) - 1)))

RECURSIVE InsertStr(_, _)
InsertStr(x, s) ==
    IF s = <<>> THEN <<x>>
    ELSE IF StrLess(x, s[1]) THEN <<x>> \o s
    ELSE <<s[1]>> \o InsertStr(x, Tail(s))

RECURSIVE SortStr(_)
SortStr(s) ==
    IF s = <<>> THEN <<>>
    ELSE InsertStr(s[Len(s)], SortStr(SubSeq(s, 1, Len(s) - 1)))

Items(s) == [i \in 1..Len(s) |-> s[i].item]

\* image_files.sort(key=lambda x: int(os.path.splitext(x)[0])); a ValueError
\* from any key leaves the list as it was, and image_files.sort() runs
SortImageFilesMixed(names) ==
    Items(SortByKey([i \in 1..Len(names) |->
        [key |-> IF ParsesAsInt(SplitExt(names[i])[1])
                 THEN IntOf(SplitExt(names[i])[1]) ELSE 0,
         item |-> names[i]]]))

SortImageFiles(names) ==
    IF \A i \in 1..Len(names) : ParsesAsInt(SplitExt(names[i])[1])
    THEN Items(SortByKey([i \in 1..Len(names) |->
             [key |-> IntOf(SplitExt(names[i])[1]), item |-> names[i]]]))
    ELSE SortStr(names)

\* chapters.sort(key=int), and chapters.sort() on a ValueError
SortChapters(names) ==
    IF \A i \in 1..Len(names) : ParsesAsInt(names[i])
    THEN Items(SortByKey([i \in 1..Len(names) |->
             [key |-> IntOf(names[i]), item |-> names[i]]]))
    ELSE SortStr(names)

\* ------------------------------------------------------------------- files
Missing == [kind |-> "missing", pages |-> <<>>]

EmptyFile == [kind |-> "empty", pages |-> <<>>]

PartialFile == [kind |-> "partial", pages |-> <<>>]

Pdf(pages) == [kind |-> "pdf", pages |-> pages]

\* os.path.exists(f) and os.path.getsize(f) > 0
ExistsNonEmpty(f) == f.kind \in {"partial", "pdf"}

\* what a PDF library can read
Readable(f) == f.kind = "pdf"

\* the page of a PDF left at the destination by an earlier run
OldPage == <<"o", "l", "d">>

OldPdf == Pdf(<<OldPage>>)

\* the value images_to_pdf returns on success
OutputPath == "output_pdf_path"

VARIABLES
    \* the environment of one images_to_pdf call
    dir_exists,             \* whether image_dir exists
    entries,                \* os.scandir(image_dir): [name, is_file], in scan order
    IMG2PDF_AVAILABLE,      \* whether import img2pdf succeeded
    output,                 \* the file at output_pdf_path
    output_before,          \* the file at output_pdf_path when the call started
    \* the locals of images_to_pdf
    pc,
    image_files,
    use_img2pdf_strategy,
    temp_dir,               \* temp_batch_<n>.pdf, n -> file
    temp_pdfs,              \* the n of the partial PDFs, in order
    batch_index,
    next_file,              \* index in image_files of the next file of the batch
    batch_images_pil,       \* indices in image_files of the images of the batch
    img,                    \* index of the image the local img refers to, 0: unbound
    img_closed,             \* whether that image was closed
    result,
    \* what happened during the call
    log,                    \* the strategies announced (lines 69 and 83)
    skipped,                \* indices of the images that failed to open or convert
    lost,                   \* batch numbers whose PDF could not be encoded
    faults,                 \* the errors the libraries and the file system raised
    \* batch_chapter_to_pdfs
    album_pc,
    album_exists,
    album_entries,          \* os.scandir(album_dir): [name, is_dir]
    album_files,            \* chapter name -> the file <album>/<chapter>.pdf
    chapters,
    chapter_index,
    album_pdf_paths,        \* the list batch_chapter_to_pdfs returns
    calls,                  \* the chapters images_to_pdf was invoked for, in order
    outcomes,               \* per invocation: [result, file]
    \* merge_pdfs and zip_pdfs called on their own
    pdf_paths,              \* the path list argument
    files,                  \* path -> file
    lib_error,              \* the error the merge or zip library raises, "ok": none
    merge_pc,
    merge_output,           \* the file at output_path
    merge_ret,
    zip_pc,
    zip_file,               \* the archive at zip_path
    zip_ret,
    \* the sorts on their own
    sort_pc,
    sort_input,
    sort_output

convVars ==
    <<dir_exists, entries, IMG2PDF_AVAILABLE, output, output_before, pc, image_files,
      use_img2pdf_strategy, temp_dir, temp_pdfs, batch_index, next_file,
      batch_images_pil, img, img_closed, result, log, skipped, lost, faults>>

albumVars ==
    <<album_pc, album_exists, album_entries, album_files, chapters, chapter_index,
      album_pdf_paths, calls, outcomes>>

mergeVars == <<pdf_paths, files, lib_error, merge_pc, merge_output, merge_ret>>

zipVars == <<zip_pc, zip_file, zip_ret>>

sortVars == <<sort_pc, sort_input, sort_output>>

vars == <<convVars, albumVars, mergeVars, zipVars, sortVars>>

\* ---------------------------------------------------------- get_image_formats
FastExtensions == { <<".", "j", "p", "g">>, <<".", "j", "p", "e", "g">>,
                    <<".", "p", "n", "g">> }

\* unsupported_by_img2pdf of get_image_formats
UnsupportedByImg2pdf(names) ==
    \E i \in 1..Len(names) : ExtOf(names[i]) \notin FastExtensions

\* ------------------------------------------------------------- images_to_pdf
allowed_extensions == FastExtensions \cup { <<".", "w", "e", "b", "p">>,
                                            <<".", "b", "m", "p">> }

Eligible(e) == e.is_file /\ ExtOf(e.name) \in allowed_extensions

Names(es) == [i \in 1..Len(es) |-> es[i].name]

\* lines 40-47: the names of the allow-listed files, in scan order
ListImageFiles(es) == Names(SelectSeq(es, Eligible))

Min(S) == CHOOSE x \in S : \A y \in S : x <= y

\* The images that fail in one call are at most MaxCorrupt isolated ones, or one
\* run of consecutive files.
MayFail(i) ==
    \/ Cardinality(skipped) < MaxCorrupt
    \/ skipped # {} /\ skipped = Min(skipped)..(i - 1)

NoCall ==
    /\ pc = "idle"
    /\ dir_exists = FALSE
    /\ entries = <<>>
    /\ output = Missing
    /\ output_before = Missing
    /\ image_files = <<>>
    /\ use_img2pdf_strategy = FALSE
    /\ temp_dir = <<>>
    /\ temp_pdfs = <<>>
    /\ batch_index = 0
    /\ next_file = 1
    /\ batch_images_pil = <<>>
    /\ img = 0
    /\ img_closed = FALSE
    /\ result = "unset"
    /\ log = <<>>
    /\ skipped = {}
    /\ lost = {}
    /\ faults = {}

\* the state at the call images_to_pdf(image_dir, output_pdf_path)
Called(exists, es, out) ==
    /\ pc = "scan"
    /\ dir_exists = exists
    /\ entries = es
    /\ output = out
    /\ output_before = out
    /\ image_files = <<>>
    /\ use_img2pdf_strategy = FALSE
    /\ temp_dir = <<>>
    /\ temp_pdfs = <<>>
    /\ batch_index = 0
    /\ next_file = 1
    /\ batch_images_pil = <<>>
    /\ img = 0
    /\ img_closed = FALSE
    /\ result = "unset"
    /\ log = <<>>
    /\ skipped = {}
    /\ lost = {}
    /\ faults = {}

Return(value) ==
    /\ result' = value
    /\ pc' = "done"

\* lines 40-59: list the directory, sort, return on a missing or empty directory
ScanAndSort ==
    /\ pc = "scan"
    /\ IF ~dir_exists
       THEN /\ Return(None)
            /\ UNCHANGED image_files
       ELSE LET sorted == SortImageFiles(ListImageFiles(entries)) IN
            /\ image_files' = sorted
            /\ IF sorted = <<>>
               THEN Return(None)
               ELSE pc' = "strategy" /\ UNCHANGED result
    /\ UNCHANGED <<dir_exists, entries, IMG2PDF_AVAILABLE, output, output_before,
                   use_img2pdf_strategy, temp_dir, temp_pdfs, batch_index, next_file,
                   batch_images_pil, img, img_closed, log, skipped, lost, faults>>
    /\ UNCHANGED <<albumVars, mergeVars, zipVars, sortVars>>

\* lines 61-66: create the parent directory, choose the strategy
SelectStrategy ==
    /\ pc = "strategy"
    /\ \E makedirs_ok \in BOOLEAN :
         IF makedirs_ok
         THEN /\ use_img2pdf_strategy' =
                    (IMG2PDF_AVAILABLE /\ ~UnsupportedByImg2pdf(image_files))
              /\ pc' = IF use_img2pdf_strategy' THEN "fast" ELSE "pil"
              /\ UNCHANGED <<result, faults>>
         ELSE \* line 142
              /\ faults' = faults \cup {"makedirs"}
              /\ Return(None)
              /\ UNCHANGED use_img2pdf_strategy
    /\ UNCHANGED <<dir_exists, entries, IMG2PDF_AVAILABLE, output, output_before,
                   image_files, temp_dir, temp_pdfs, batch_index, next_file,
                   batch_images_pil, img, img_closed, log, skipped, lost>>
    /\ UNCHANGED <<albumVars, mergeVars, zipVars, sortVars>>

\* lines 76-79: what follows an error of the fast path
FastPathFailedAbort(fault, out) ==
    /\ faults' = faults \cup {fault}
    /\ output' = out
    /\ Return(None)
    /\ UNCHANGED use_img2pdf_strategy

FastPathFailed(fault, out) ==
    /\ faults' = faults \cup {fault}
    /\ output' = out
    /\ use_img2pdf_strategy' = FALSE
    /\ pc' = "pil"
    /\ UNCHANGED result

\* lines 68-79: open(output_pdf_path, "wb") creates or truncates the file, then
\* img2pdf.convert runs
FastPath ==
    /\ pc = "fast"
    /\ use_img2pdf_strategy
    /\ log' = Append(log, "img2pdf")
    /\ \E outcome \in {"ok", "open_error", "convert_error"} :
         CASE outcome = "ok" ->
                /\ output' = Pdf(image_files)
                /\ Return(OutputPath)
                /\ UNCHANGED <<use_img2pdf_strategy, faults>>
           [] outcome = "open_error" -> FastPathFailed("fast_open", output)
           [] outcome = "convert_error" -> FastPathFailed("fast_convert", EmptyFile)
    /\ UNCHANGED <<dir_exists, entries, IMG2PDF_AVAILABLE, output_before,
                   image_files, temp_dir, temp_pdfs, batch_index, next_file,
                   batch_images_pil, img, img_closed, skipped, lost>>
    /\ UNCHANGED <<albumVars, mergeVars, zipVars, sortVars>>

total_images == Len(image_files)

\* line 87
batch_count_floor == total_images \div BATCH_SIZE

batch_count == (total_images + BATCH_SIZE - 1) \div BATCH_SIZE

start_idx == batch_index * BATCH_SIZE

end_idx == IF start_idx + BATCH_SIZE < total_images
           THEN start_idx + BATCH_SIZE ELSE total_images

\* lines 82-88
StartPil ==
    /\ pc = "pil"
    /\ ~use_img2pdf_strategy
    /\ log' = Append(log, "PIL")
    /\ temp_pdfs' = <<>>
    /\ temp_dir' = <<>>
    /\ batch_index' = 0
    /\ next_file' = 1
    /\ batch_images_pil' = <<>>
    /\ pc' = "batch"
    /\ UNCHANGED <<dir_exists, entries, IMG2PDF_AVAILABLE, output, output_before,
                   image_files, use_img2pdf_strategy, img, img_closed, result,
                   skipped, lost, faults>>
    /\ UNCHANGED <<albumVars, mergeVars, zipVars, sortVars>>

\* lines 97-106: one file of the batch.  Image.open binds img; a failing
\* img.convert leaves img bound to the opened image, which nothing closes
OpenImage ==
    /\ pc = "batch"
    /\ batch_index < batch_count
    /\ next_file <= end_idx
    /\ \E outcome \in {"ok", "open_error", "convert_error"} :
         /\ outcome # "ok" => MayFail(next_file)
         /\ CASE outcome = "ok" ->
                   /\ img' = next_file
                   /\ img_closed' = FALSE
                   /\ batch_images_pil' = Append(batch_images_pil, next_file)
                   /\ UNCHANGED skipped
              [] outcome = "open_error" ->
                   /\ skipped' = skipped \cup {next_file}
                   /\ UNCHANGED <<img, img_closed, batch_images_pil>>
              [] outcome = "convert_error" ->
                   /\ img' = next_file
                   /\ img_closed' = FALSE
                   /\ skipped' = skipped \cup {next_file}
                   /\ UNCHANGED batch_images_pil
    /\ next_file' = next_file + 1
    /\ UNCHANGED <<dir_exists, entries, IMG2PDF_AVAILABLE, output, output_before, pc,
                   image_files, use_img2pdf_strategy, temp_dir, temp_pdfs,
                   batch_index, result, log, lost, faults>>
    /\ UNCHANGED <<albumVars, mergeVars, zipVars, sortVars>>

\* lines 114-117: the pages of the PDF of a batch
PagesOfAppendOnly(indices) == [k \in 1..(Len(indices) - 1) |-> image_files[indices[k + 1]]]

PagesOf(indices) == [k \in 1..Len(indices) |-> image_files[indices[k]]]

Last(s) == s[Len(s)]

\* lines 108-126: the end of a batch: skip it when empty, else encode it and
\* close its images
SaveBatch ==
    /\ pc = "batch"
    /\ batch_index < batch_count
    /\ next_file > end_idx
    /\ IF batch_images_pil = <<>>
       THEN UNCHANGED <<temp_dir, temp_pdfs, lost, img, img_closed, batch_images_pil>>
       ELSE /\ \E save_ok \in BOOLEAN :
                 IF save_ok
                 THEN /\ temp_dir' = [n \in (DOMAIN temp_dir) \cup {batch_index + 1} |->
                                        IF n = batch_index + 1
                                        THEN Pdf(PagesOf(batch_images_pil))
                                        ELSE temp_dir[n]]
                      /\ temp_pdfs' = Append(temp_pdfs, batch_index + 1)
                      /\ UNCHANGED lost
                 ELSE /\ lost' = lost \cup {batch_index + 1}
                      /\ UNCHANGED <<temp_dir, temp_pdfs>>
            /\ img' = Last(batch_images_pil)
            /\ img_closed' = TRUE
            /\ batch_images_pil' = <<>>
    /\ batch_index' = batch_index + 1
    /\ UNCHANGED <<dir_exists, entries, IMG2PDF_AVAILABLE, output, output_before, pc,
                   image_files, use_img2pdf_strategy, next_file, result, log,
                   skipped, faults>>
    /\ UNCHANGED <<albumVars, mergeVars, zipVars, sortVars>>

\* ---------------------------------------------------------------- merge_pdfs
RECURSIVE ConcatPages(_, _)
ConcatPages(paths, fs) ==
    IF paths = <<>> THEN <<>>
    ELSE fs[paths[1]].pages \o ConcatPages(Tail(paths), fs)

Reverse(s) == [i \in 1..Len(s) |-> s[Len(s) + 1 - i]]

\* line 161: the paths merger.append is called for
ValidInputsAll(paths, fs) == paths

ValidInputs(paths, fs) ==
    LET valid(p) == p \in DOMAIN fs /\ ExistsNonEmpty(fs[p]) IN SelectSeq(paths, valid)

\* lines 160-162 and 169: the pages merger.write writes
MergedPagesReversed(inputs, fs) == ConcatPages(Reverse(inputs), fs)

MergedPages(inputs, fs) == ConcatPages(inputs, fs)

MergeErrors == {"ok", "import_error", "append_error", "open_error", "write_error"}

\* merge_pdfs(paths, output_path) with the files fs, the destination out and
\* the error err of the library: [ret, out].  merger.append raises on a file that
\* is no PDF, and when err says so; merger.write raises before the destination is
\* created (open_error) or after (write_error)
MergePdfs(paths, fs, out, err) ==
    LET inputs == ValidInputs(paths, fs) IN
    IF err = "import_error" THEN [ret |-> FALSE, out |-> out]
    ELSE IF \E i \in 1..Len(inputs) : ~Readable(fs[inputs[i]])
    THEN [ret |-> FALSE, out |-> out]
    ELSE IF inputs # <<>> /\ err = "append_error" THEN [ret |-> FALSE, out |-> out]
    ELSE IF inputs = <<>> THEN [ret |-> FALSE, out |-> out]
    ELSE IF err = "open_error" THEN [ret |-> FALSE, out |-> out]
    ELSE IF err = "write_error" THEN [ret |-> FALSE, out |-> PartialFile]
    ELSE [ret |-> TRUE, out |-> Pdf(MergedPages(inputs, fs))]

\* lines 128-149: leave the batch loop, copy or merge the partial PDFs, drop the
\* temporary directory, return
FinishPil ==
    /\ pc = "batch"
    /\ batch_index = batch_count
    /\ IF temp_pdfs = <<>>
       THEN /\ Return(None)
            /\ UNCHANGED <<output, faults>>
       ELSE IF Len(temp_pdfs) = 1
       THEN \E copy \in {"ok", "open_error", "write_error"} :
              CASE copy = "ok" ->
                     /\ output' = temp_dir[temp_pdfs[1]]
                     /\ Return(OutputPath)
                     /\ UNCHANGED faults
                [] copy = "open_error" ->
                     /\ faults' = faults \cup {"copy_open"}
                     /\ Return(None)
                     /\ UNCHANGED output
                [] copy = "write_error" ->
                     /\ faults' = faults \cup {"copy_write"}
                     /\ output' = PartialFile
                     /\ Return(None)
       ELSE \E err \in MergeErrors :
              LET m == MergePdfs(temp_pdfs, temp_dir, output, err) IN
              /\ output' = m.out
              /\ faults' = IF m.ret THEN faults
                           ELSE faults \cup {IF m.out = output THEN "merge" ELSE "merge_write"}
              /\ Return(IF m.ret THEN OutputPath ELSE None)
    /\ temp_dir' = <<>>
    /\ UNCHANGED <<dir_exists, entries, IMG2PDF_AVAILABLE, output_before,
                   image_files, use_img2pdf_strategy, temp_pdfs, batch_index,
                   next_file, batch_images_pil, img, img_closed, log, skipped, lost>>
    /\ UNCHANGED <<albumVars, mergeVars, zipVars, sortVars>>

\* ------------------------------------------------------------ the directories
Name1 == <<"1", ".", "j", "p", "g">>

Name2 == <<"2", ".", "p", "n", "g">>

Name10 == <<"1", "0", ".", "J", "P", "G">>

Name01 == <<"0", "1", ".", "j", "p", "e", "g">>

NameA == <<"a", ".", "j", "p", "g">>

Name3 == <<"3", ".", "w", "e", "b", "p">>

Name4 == <<"4", ".", "t", "x", "t">>

NameMinus == <<"-", "1", ".", "b", "m", "p">>

Name9 == <<"9", ".", "p", "n", "g">>

File(name) == [name |-> name, is_file |-> TRUE]

EntryPool ==
    { File(Name1), File(Name10), File(Name01), File(NameA), File(Name3), File(Name4),
      [name |-> Name9, is_file |-> FALSE] }

\* the sequences of at most n different elements of S
RECURSIVE Arrangements(_, _)
Arrangements(S, n) ==
    IF n = 0 THEN { <<>> }
    ELSE LET shorter == Arrangements(S, n - 1) IN
         shorter \cup { Append(s, x) : s \in shorter, x \in S } 

Distinct(s) == \A i, j \in 1..Len(s) : i # j => s[i] # s[j]

DistinctArrangements(S, n) == { s \in Arrangements(S, n) : Distinct(s) }

SmallDirs == DistinctArrangements(EntryPool, MaxEntries)

Numeral(k) ==
    IF k < 10 THEN <<Chr(48 + k)>> ELSE <<Chr(48 + (k \div 10)), Chr(48 + (k % 10))>>

\* n.jpg, ..., 2.jpg, 1.jpg: a numbered directory scanned in descending order
NumberedDir(n) == [i \in 1..n |-> File(Numeral(n + 1 - i) \o <<".", "j", "p", "g">>)]

NumberedDirs == { NumberedDir(n) : n \in 1..MaxImages }

Init ==
    /\ \E exists \in BOOLEAN :
       \E es \in IF exists THEN SmallDirs \cup NumberedDirs ELSE { <<>> } :
       \E out \in IF Len(es) <= MaxEntries THEN {Missing, OldPdf} ELSE {Missing} :
          Called(exists, es, out)
    /\ IMG2PDF_AVAILABLE \in BOOLEAN
    /\ album_pc = "idle"
    /\ album_exists = FALSE
    /\ album_entries = <<>>
    /\ album_files = <<>>
    /\ chapters = <<>>
    /\ chapter_index = 0
    /\ album_pdf_paths = <<>>
    /\ calls = <<>>
    /\ outcomes = <<>>
    /\ pdf_paths = <<>>
    /\ files = <<>>
    /\ lib_error = "ok"
    /\ merge_pc = "idle"
    /\ merge_output = Missing
    /\ merge_ret = "unset"
    /\ zip_pc = "idle"
    /\ zip_file = Missing
    /\ zip_ret = "unset"
    /\ sort_pc = "idle"
    /\ sort_input = <<>>
    /\ sort_output = <<>>

Next ==
    \/ ScanAndSort
    \/ SelectStrategy
    \/ FastPath
    \/ StartPil
    \/ OpenImage
    \/ SaveBatch
    \/ FinishPil

Spec == Init /\ [][Next]_vars

\* ------------------------------------------------------- merge_pdfs on its own
\* a page per input path
PageOf(p) == <<"p", Chr(48 + p)>>

FileKinds(p) == {Missing, EmptyFile, PartialFile, Pdf(<<PageOf(p)>>)}

\* the path lists 1..n of at most MaxPdfs paths, with every choice of files
PathInputs ==
    UNION { { [paths |-> [i \in 1..n |-> i], files |-> fs] :
                fs \in { f \in [1..n -> UNION {FileKinds(p) : p \in 1..n}] :
                           \A p \in 1..n : f[p] \in FileKinds(p) } } :
            n \in 0..MaxPdfs }

IdleExcept(others) ==
    /\ NoCall
    /\ "album" \in others \/
         /\ IMG2PDF_AVAILABLE = FALSE
         /\ album_pc = "idle"
         /\ album_exists = FALSE
         /\ album_entries = <<>>
         /\ album_files = <<>>
         /\ chapters = <<>>
         /\ chapter_index = 0
         /\ album_pdf_paths = <<>>
         /\ calls = <<>>
         /\ outcomes = <<>>
    /\ "paths" \in others \/
         /\ pdf_paths = <<>>
         /\ files = <<>>
         /\ lib_error = "ok"
    /\ "merge" \in others \/
         /\ merge_pc = "idle"
         /\ merge_output = Missing
         /\ merge_ret = "unset"
    /\ "zip" \in others \/
         /\ zip_pc = "idle"
         /\ zip_file = Missing
         /\ zip_ret = "unset"
    /\ "sort" \in others \/
         /\ sort_pc = "idle"
         /\ sort_input = <<>>
         /\ sort_output = <<>>

InitMerge ==
    /\ IdleExcept({"paths", "merge"})
    /\ \E in \in PathInputs : pdf_paths = in.paths /\ files = in.files
    /\ lib_error \in MergeErrors
    /\ merge_pc = "call"
    /\ merge_output \in {Missing, OldPdf}
    /\ merge_ret = "unset"

\* lines 152-177
MergeCall ==
    /\ merge_pc = "call"
    /\ LET m == MergePdfs(pdf_paths, files, merge_output, lib_error) IN
       /\ merge_ret' = m.ret
       /\ merge_output' = m.out
    /\ merge_pc' = "done"
    /\ UNCHANGED <<pdf_paths, files, lib_error>>
    /\ UNCHANGED <<convVars, albumVars, zipVars, sortVars>>

NextMerge == MergeCall

SpecMerge == InitMerge /\ [][NextMerge]_vars

\* ------------------------------------------------------------------ zip_pdfs
ZipPath == "zip_path"

Archive(names) == [kind |-> "zip", pages |-> names]

ZipErrors == {"ok", "makedirs_error", "open_error", "write_error"}

\* lines 250-254: the PDFs written into the archive, by base name
Archived(paths, fs) == ValidInputs(paths, fs)

\* zip_pdfs(paths, zip_path): [ret, zip].  ZipFile(zip_path, "w") creates or
\* truncates the archive; zipf.write raises only when there is a PDF to write
ZipPdfs(paths, fs, zip, err) ==
    IF paths = <<>> THEN [ret |-> None, zip |-> zip]
    ELSE IF err \in {"makedirs_error", "open_error"} THEN [ret |-> None, zip |-> zip]
    ELSE IF err = "write_error" /\ Archived(paths, fs) # <<>>
    THEN [ret |-> None, zip |-> PartialFile]
    ELSE [ret |-> ZipPath, zip |-> Archive(Archived(paths, fs))]

InitZip ==
    /\ IdleExcept({"paths", "zip"})
    /\ \E in \in PathInputs : pdf_paths = in.paths /\ files = in.files
    /\ lib_error \in ZipErrors
    /\ zip_pc = "call"
    /\ zip_file \in {Missing, Archive(<<>>)}
    /\ zip_ret = "unset"

\* lines 232-260
ZipCall ==
    /\ zip_pc = "call"
    /\ LET z == ZipPdfs(pdf_paths, files, zip_file, lib_error) IN
       /\ zip_ret' = z.ret
       /\ zip_file' = z.zip
    /\ zip_pc' = "done"
    /\ UNCHANGED <<pdf_paths, files, lib_error>>
    /\ UNCHANGED <<convVars, albumVars, mergeVars, sortVars>>

NextZip == ZipCall

SpecZip == InitZip /\ [][NextZip]_vars

\* --------------------------------------------------------- the sorts on their own
NamePool == {Name1, Name2, Name10, Name01, NameA, Name3, NameMinus,
             <<"1", "_", "0", ".", "p", "n", "g">>, <<".", "j", "p", "g">>}

ChapterPool == { <<"1">>, <<"2">>, <<"1", "0">>, <<"0", "1">>, <<"a">>,
                 <<"-", "1">>, <<"1", ".", "5">> }

InitSort ==
    /\ IdleExcept({"sort"})
    /\ \E kind \in {"images", "chapters"} :
         /\ sort_pc = kind
         /\ sort_input \in DistinctArrangements(
                IF kind = "images" THEN NamePool ELSE ChapterPool, MaxNames)
    /\ sort_output = <<>>

\* lines 52-55
SortImages ==
    /\ sort_pc = "images"
    /\ sort_output' = SortImageFiles(sort_input)
    /\ sort_pc' = "images_sorted"
    /\ UNCHANGED sort_input
    /\ UNCHANGED <<convVars, albumVars, mergeVars, zipVars>>

\* lines 202-205
SortChapterNames ==
    /\ sort_pc = "chapters"
    /\ sort_output' = SortChapters(sort_input)
    /\ sort_pc' = "chapters_sorted"
    /\ UNCHANGED sort_input
    /\ UNCHANGED <<convVars, albumVars, mergeVars, zipVars>>

NextSort == SortImages \/ SortChapterNames

SpecSort == InitSort /\ [][NextSort]_vars

\* ----------------------------------------------------- batch_chapter_to_pdfs
\* the locals of images_to_pdf at a call (position "scan") and after the caller
\* took the result (position "idle")
SetCall(position, exists, es, out) ==
    /\ pc' = position
    /\ dir_exists' = exists
    /\ entries' = es
    /\ output' = out
    /\ output_before' = out
    /\ image_files' = <<>>
    /\ use_img2pdf_strategy' = FALSE
    /\ temp_dir' = <<>>
    /\ temp_pdfs' = <<>>
    /\ batch_index' = 0
    /\ next_file' = 1
    /\ batch_images_pil' = <<>>
    /\ img' = 0
    /\ img_closed' = FALSE
    /\ result' = "unset"
    /\ log' = <<>>
    /\ skipped' = {}
    /\ lost' = {}
    /\ faults' = {}
    /\ UNCHANGED IMG2PDF_AVAILABLE

Dir(name) == [name |-> name, is_dir |-> TRUE]

ChapterEntryPool ==
    { Dir(<<"2">>), Dir(<<"1", "0">>), Dir(<<"a">>),
      [name |-> <<"7">>, is_dir |-> FALSE] }

\* the directories a chapter may be
ChapterDirs ==
    { <<>>, <<File(Name1)>>, <<File(Name3), File(Name2)>> }

\* lines 196-199: the names of the sub-directories, in scan order
ListChapters(es) ==
    LET is_dir(e) == e.is_dir IN Names(SelectSeq(es, is_dir))

InitAlbum ==
    /\ IdleExcept({"album"})
    /\ IMG2PDF_AVAILABLE \in BOOLEAN
    /\ album_pc = "scan"
    /\ album_exists \in BOOLEAN
    /\ album_entries \in IF album_exists
                          THEN DistinctArrangements(ChapterEntryPool, MaxChapters)
                          ELSE { <<>> }
    /\ album_files = <<>>
    /\ chapters = <<>>
    /\ chapter_index = 0
    /\ album_pdf_paths = <<>>
    /\ calls = <<>>
    /\ outcomes = <<>>

\* lines 190-208; a missing album directory raises, and line 226 catches it
AlbumScan ==
    /\ album_pc = "scan"
    /\ IF album_exists
       THEN /\ chapters' = SortChapters(ListChapters(album_entries))
            /\ album_pc' = IF chapters' = <<>> THEN "done" ELSE "loop"
       ELSE /\ album_pc' = "done"
            /\ UNCHANGED chapters
    /\ UNCHANGED <<album_exists, album_entries, album_files, chapter_index,
                   album_pdf_paths, calls, outcomes>>
    /\ UNCHANGED <<convVars, mergeVars, zipVars, sortVars>>

chapter == chapters[chapter_index + 1]

\* lines 211-216: result = images_to_pdf(chapter_dir, pdf_path)
CallChapter ==
    /\ album_pc = "loop"
    /\ chapter_index < Len(chapters)
    /\ \E es \in ChapterDirs, out \in {Missing, OldPdf} : SetCall("scan", TRUE, es, out)
    /\ calls' = Append(calls, chapter)
    /\ album_pc' = "wait"
    /\ UNCHANGED <<album_exists, album_entries, album_files, chapters, chapter_index,
                   album_pdf_paths, outcomes>>
    /\ UNCHANGED <<mergeVars, zipVars, sortVars>>

\* line 218: whether the chapter's PDF joins the returned list
ChapterSucceededAnyResult(res, file) == ExistsNonEmpty(file)

ChapterSucceeded(res, file) == res # None /\ ExistsNonEmpty(file)

\* lines 218-224, and the next iteration or the return of line 229
ChapterReturn ==
    /\ album_pc = "wait"
    /\ pc = "done"
    /\ album_pdf_paths' = IF ChapterSucceeded(result, output)
                          THEN Append(album_pdf_paths, chapter)
                          ELSE album_pdf_paths
    /\ outcomes' = Append(outcomes, [result |-> result, file |-> output])
    /\ album_files' = [c \in (DOMAIN album_files) \cup {chapter} |->
                          IF c = chapter THEN output ELSE album_files[c]]
    /\ chapter_index' = chapter_index + 1
    /\ album_pc' = IF chapter_index' = Len(chapters) THEN "done" ELSE "loop"
    /\ SetCall("idle", FALSE, <<>>, Missing)
    /\ UNCHANGED <<album_exists, album_entries, chapters, calls>>
    /\ UNCHANGED <<mergeVars, zipVars, sortVars>>

NextAlbum ==
    \/ AlbumScan
    \/ CallChapter
    \/ ChapterReturn
    \/ ScanAndSort
    \/ SelectStrategy
    \/ FastPath
    \/ StartPil
    \/ OpenImage
    \/ SaveBatch
    \/ FinishPil

SpecAlbum == InitAlbum /\ [][NextAlbum]_vars

\* ================================================================== claims
Done == pc = "done"

N == Len(image_files)

RanFast == "img2pdf" \in Range(log)

RanPil == "PIL" \in Range(log)

FastFailed == faults \cap {"fast_open", "fast_convert"} # {}

\* no error but those of the fast encoder
OnlyFastFaults == faults \subseteq {"fast_open", "fast_convert"}

BatchOf(i) == ((i - 1) \div BATCH_SIZE) + 1

Converted(i) == i \notin skipped /\ BatchOf(i) \notin lost

\* the images that opened, converted and whose batch was encoded, in list order
KeptPages ==
    LET kept == SelectSeq([i \in 1..N |-> i], Converted) IN
    [k \in 1..Len(kept) |-> image_files[kept[k]]]

SameElements(s, t) == Len(s) = Len(t) /\ Range(s) = Range(t)

BaseName(name) == SplitExt(name)[1]

\* s, whose sort keys are the strings base, is in the order the sort is to give:
\* numeric when every key is an integer, else the order of the strings s
InSortedOrder(s, base) ==
    IF \A i \in 1..Len(s) : ParsesAsInt(base[i])
    THEN \A i \in 1..(Len(s) - 1) : IntOf(base[i]) <= IntOf(base[i + 1])
    ELSE \A i \in 1..(Len(s) - 1) : StrLess(s[i], s[i + 1])

BaseNames(s) == [i \in 1..Len(s) |-> BaseName(s[i])]

EligibleNames == {entries[i].name : i \in {j \in 1..Len(entries) : Eligible(entries[j])}}

ListedAndSorted ==
    /\ Range(image_files) = EligibleNames
    /\ Len(image_files) = Cardinality(EligibleNames)
    /\ InSortedOrder(image_files, BaseNames(image_files))

\* C1 as stated: a call returns the destination path with the output PDF holding
\* one page for every allow-listed image file of the directory, in sorted order,
\* or it returns an absent result.
C1_AllImagesOrAbsent ==
    Done =>
      \/ result = None
      \/ /\ result = OutputPath
         /\ ListedAndSorted
         /\ output = Pdf(image_files)

\* C1 amended: a call returns an absent result, or the destination path with the
\* output PDF holding, in sorted order, one page for every allow-listed image file
\* that opened and converted in a batch that was encoded; these are all N files
\* when the fast path succeeds or when no image and no batch fails.
C1_ConvertedImagesOrAbsent ==
    Done =>
      \/ result = None
      \/ /\ result = OutputPath
         /\ ListedAndSorted
         /\ output = Pdf(IF RanPil THEN KeptPages ELSE image_files)
         /\ skipped = {} /\ lost = {} => Len(output.pages) = Cardinality(EligibleNames)

C1_Witness ==
    /\ Done
    /\ result = OutputPath
    /\ Len(temp_pdfs) = 2
    /\ skipped # {}
    /\ Len(output.pages) = N - 1

Position(name) == CHOOSE i \in 1..N : image_files[i] = name

\* the PDF at the destination was written by this call
Produced == output.kind = "pdf" /\ output # OldPdf

\* C2: the pages of every output PDF the call produces are images of the sorted
\* list, each at a later position than the page before it, so that no image is
\* on two pages.
C2_PageOrder ==
    Produced =>
      /\ \A k \in 1..Len(output.pages) : output.pages[k] \in Range(image_files)
      /\ \A k \in 1..(Len(output.pages) - 1) :
           Position(output.pages[k]) < Position(output.pages[k + 1])

C2_Witness ==
    /\ Done
    /\ result = OutputPath
    /\ Len(temp_pdfs) = 2
    /\ lost # {}
    /\ skipped # {}

\* exactly one image fails to open or convert, every batch is encoded and the
\* copy or merge raises nothing
OneCorruptOthersConvert ==
    /\ RanPil
    /\ Cardinality(skipped) = 1
    /\ lost = {}
    /\ OnlyFastFaults

SkippingCorrupt ==
    /\ result = OutputPath
    /\ output.kind = "pdf"
    /\ Len(output.pages) = N - 1
    /\ output.pages = KeptPages

\* C3 as stated: with exactly one corrupt image among N the call reports success
\* and the output PDF holds the other N-1 images in sorted order, for every N.
C3_OneCorruptEveryN == Done /\ OneCorruptOthersConvert => SkippingCorrupt

\* C3 amended: the same for every N >= 2; with N = 1 no partial PDF exists and
\* the call returns an absent result.
C3_OneCorrupt ==
    Done /\ OneCorruptOthersConvert =>
      IF N >= 2 THEN SkippingCorrupt ELSE result = None

C3_Witness ==
    /\ Done
    /\ OneCorruptOthersConvert
    /\ RanFast
    /\ N = BATCH_SIZE + 1
    /\ skipped = {N}
    /\ result = OutputPath

AllFastExtensions == \A i \in 1..N : ExtOf(image_files[i]) \in FastExtensions

\* C4: the fast encoder is invoked only when it is available and every extension
\* is .jpg, .jpeg or .png, and else the batch path runs; after an error of the
\* fast encoder the batch path runs next over the whole sorted list and its
\* result is the result of the call, so that the call succeeds when the batch
\* path does.
C4_FastPathFallback ==
    /\ RanFast /\ pc \in {"pil", "done"} => IMG2PDF_AVAILABLE /\ AllFastExtensions
    /\ FastFailed => (log = <<"img2pdf">> /\ pc = "pil") \/ log = <<"img2pdf", "PIL">>
    /\ Done /\ N > 0 /\ "makedirs" \notin faults /\ ~(IMG2PDF_AVAILABLE /\ AllFastExtensions)
         => log = <<"PIL">>
    /\ Done /\ RanPil =>
         /\ next_file = N + 1
         /\ result = IF temp_pdfs # <<>> /\ OnlyFastFaults THEN OutputPath ELSE None
         /\ result = OutputPath => output = Pdf(KeptPages)
         /\ skipped = {} /\ lost = {} /\ OnlyFastFaults => result = OutputPath

C4_Witness ==
    /\ Done
    /\ "fast_convert" \in faults
    /\ log = <<"img2pdf", "PIL">>
    /\ result = OutputPath
    /\ output = Pdf(image_files)

\* the images that are opened and not released: those of the batch list, and the
\* one the local img refers to unless it was closed
OpenImages == Range(batch_images_pil) \cup (IF img # 0 /\ ~img_closed THEN {img} ELSE {})

\* C9: never more than BATCH_SIZE images are open at once; when the first image
\* of a batch is about to be opened no image of an earlier batch is still open;
\* 25 images that all convert give partial PDFs of 10, 10 and 5 pages.
C9_BoundedOpenImages ==
    /\ Cardinality(OpenImages) <= BATCH_SIZE
    /\ pc = "batch" /\ batch_index < batch_count /\ next_file = start_idx + 1
         => OpenImages = {}
    /\ pc = "batch" /\ batch_index = batch_count /\ N = 25 /\ skipped = {} /\ lost = {}
         => /\ temp_pdfs = <<1, 2, 3>>
            /\ Len(temp_dir[1].pages) = 10
            /\ Len(temp_dir[2].pages) = 10
            /\ Len(temp_dir[3].pages) = 5

\* C10: a call that returns an absent result has not created or altered the file
\* at the destination; stated for the calls in which no copy or merge is cut
\* short while it writes the destination.
C10_NoOutputOnFailure ==
    Done /\ result = None /\ faults \cap {"copy_write", "merge_write"} = {}
      => output = output_before

SubDirectories ==
    {album_entries[i].name : i \in {j \in 1..Len(album_entries) : album_entries[j].is_dir}}

ChapterOk(i) == outcomes[i].result # None /\ outcomes[i].file.kind \in {"partial", "pdf"}

\* C5: images_to_pdf is invoked once for every sub-directory of the album, in
\* chapter order, whatever the earlier chapters gave; the returned list holds, in
\* that order, the chapters whose call returned a path and whose PDF exists and
\* is not empty.
C5_EveryChapterConverted ==
    /\ Len(calls) = Len(outcomes) + (IF album_pc = "wait" THEN 1 ELSE 0)
    /\ album_pc = "loop" => chapter_index < Len(chapters)
    /\ album_pc = "done" =>
         /\ Range(calls) = SubDirectories
         /\ Len(calls) = Cardinality(SubDirectories)
         /\ InSortedOrder(calls, calls)
         /\ LET ok == SelectSeq([i \in 1..Len(calls) |-> i], ChapterOk) IN
            album_pdf_paths = [k \in 1..Len(ok) |-> calls[ok[k]]]

\* chapters 2 and 10 in numeric order; 2 fails, 10 is converted all the same
C5_Witness ==
    /\ album_pc = "done"
    /\ calls = << <<"2">>, <<"1", "0">> >>
    /\ outcomes[1].result = None
    /\ outcomes[1].file = OldPdf
    /\ outcomes[2].result = OutputPath
    /\ album_pdf_paths = << <<"1", "0">> >>

NonZeroSize(p) == files[p].kind \in {"partial", "pdf"}

\* the paths that exist with non-zero size, in list order
NonZeroPaths == SelectSeq(pdf_paths, NonZeroSize)

AllPdf(paths) == \A i \in 1..Len(paths) : files[paths[i]].kind = "pdf"

RECURSIVE PagesAlong(_)
PagesAlong(paths) ==
    IF paths = <<>> THEN <<>> ELSE files[paths[1]].pages \o PagesAlong(Tail(paths))

MergeLibraryError ==
    \/ lib_error = "import_error"
    \/ NonZeroPaths # <<>> /\ (lib_error # "ok" \/ ~AllPdf(NonZeroPaths))

\* C6: merge_pdfs takes the paths that exist with non-zero size, in list order;
\* with none of them it returns false and leaves the destination as it was;
\* with one or more and no library error it writes their pages, in order, to the
\* destination and returns true; on a library error it returns false.
C6_MergeValidInputs ==
    [][merge_pc = "call" /\ merge_pc' = "done" =>
         /\ merge_ret' \in BOOLEAN
         /\ NonZeroPaths = <<>> => merge_ret' = FALSE /\ merge_output' = merge_output
         /\ NonZeroPaths # <<>> /\ ~MergeLibraryError =>
              merge_ret' = TRUE /\ merge_output' = Pdf(PagesAlong(NonZeroPaths))
         /\ MergeLibraryError => merge_ret' = FALSE]_vars

\* one valid and one zero-byte PDF: merged from the valid one alone
C6_Witness ==
    /\ merge_pc = "done"
    /\ pdf_paths = <<1, 2>>
    /\ files[1] = EmptyFile
    /\ files[2].kind = "pdf"
    /\ merge_ret = TRUE
    /\ merge_output = Pdf(files[2].pages)

\* C7: zip_pdfs returns an absent result when the list is empty or no listed path
\* exists with non-zero size, and the archive path only when a PDF was written
\* into the archive.
C7_ZipNeedsValidPdf ==
    zip_pc = "done" =>
      /\ NonZeroPaths = <<>> => zip_ret = None
      /\ zip_ret = ZipPath => zip_file.kind = "zip" /\ zip_file.pages # <<>>

\* C8: the sorted list holds the names it was given; when every base name is an
\* integer it is in ascending numeric order, and when one is not, it is the
\* whole list in the order of the strings.
C8_AllOrNothingSort ==
    /\ sort_pc = "images_sorted" =>
         /\ SameElements(sort_input, sort_output)
         /\ InSortedOrder(sort_output, BaseNames(sort_output))
    /\ sort_pc = "chapters_sorted" =>
         /\ SameElements(sort_input, sort_output)
         /\ InSortedOrder(sort_output, sort_output)

\* 10.JPG, a.jpg, 2.png: one name is no integer, and 10 comes before 2
C8_Witness ==
    /\ sort_pc = "images_sorted"
    /\ sort_input = <<Name10, NameA, Name2>>
    /\ sort_output = <<Name10, Name2, NameA>>

====
